---- MODULE Spec2Model ----
(***************************************************************************)
(* Model of the Flashbots MEV pipeline: the executor class                 *)
(* FlashbotsMEVExecutor (src/flashbots.ts) and the scheduler that drives   *)
(* it, mevScanLoop / initializeFlashbots / setupGracefulShutdown           *)
(* (src/unnamed/part_000).                                                 *)
(*                                                                         *)
(* Every `await` of the source is a point where the event loop may run     *)
(* something else, so every awaited call is a separate step of the model.  *)
(* An activation of mevScanLoop is an entry of cyc; its fields are the     *)
(* local variables of the functions running on its behalf.                 *)
(*                                                                         *)
(* Amounts: TLC integers are 32 bits wide, so one ether is WeiPerEther     *)
(* base units and one gwei is WeiPerGwei base units; the arithmetic of the *)
(* source (BigInt, which never overflows) is kept as written.              *)
(***************************************************************************)
EXTENDS Integers, Sequences, FiniteSets, TLC

\* ---------------------------------------------------------------- bounds
MaxCycles == 2
MaxHead == 1
MaxNonce == 1

\* ------------------------------------------------------ program constants
MEV_SCAN_INTERVAL == 5000
SCAN_LIMIT == 10
WeiPerEther == 1000000
WeiPerGwei == 1
GAS_LIMIT == 300000
CHAIN_ID == 1

\* absent values (undefined / null in the source)
Null == -1
NoAddr == [id |-> "none", form |-> "none"]

\* An address is a 20-byte number (id) written in some letter case (form).
UNISWAP_V2_ROUTER == [id |-> "v2", form |-> "checksum"]

UNISWAP_V3_ROUTER == [id |-> "v3", form |-> "checksum"]

toLowerCase(addr) == [id |-> addr.id, form |-> "lower"]

dexAddresses == {toLowerCase(UNISWAP_V2_ROUTER), toLowerCase(UNISWAP_V3_ROUTER)}

\* A decimal string of ether is its whole part and its fractional part
\* (in base units): "0.05" is <<0, 50000>>.
parseEther(s) == s[1] * WeiPerEther + s[2]

\* slip: the fractional digits are dropped
formatEther_whole(v) == <<v \div WeiPerEther, 0>>

formatEther(v) == <<v \div WeiPerEther, v % WeiPerEther>>

parseUnitsGwei(n) == n * WeiPerGwei

\* a || b on numbers: undefined, null and 0n are falsy
OrElse(a, b) == IF a = Null \/ a = 0 THEN b ELSE a

\* slip: the comparison is not strict
gt_orEqual(a, b) == a >= b

gt(a, b) == a > b

\* ------------------------------------------------------------ environment
\* pending transactions the node may report (raw: whether the raw JSON-RPC
\* object can be converted by formatter.transactionResponse)
TxSamples ==
  { [to |-> UNISWAP_V2_ROUTER, value |-> WeiPerEther, raw |-> TRUE],
    [to |-> [id |-> "v3", form |-> "upper"], value |-> (WeiPerEther \div 20) + 1, raw |-> TRUE],
    [to |-> [id |-> "v2", form |-> "lower"], value |-> WeiPerEther \div 20, raw |-> TRUE],
    [to |-> UNISWAP_V3_ROUTER, value |-> WeiPerEther \div 25, raw |-> TRUE],
    [to |-> UNISWAP_V2_ROUTER, value |-> 0, raw |-> TRUE],
    [to |-> [id |-> "other", form |-> "checksum"], value |-> WeiPerEther, raw |-> TRUE],
    [to |-> NoAddr, value |-> WeiPerEther, raw |-> TRUE],
    [to |-> UNISWAP_V2_ROUTER, value |-> WeiPerEther, raw |-> FALSE] }

PendingPools ==
  {<<>>} \cup { <<t>> : t \in TxSamples }
  \cup { <<t, u>> : t \in {x \in TxSamples : x.value # WeiPerEther \/ ~x.raw},
                    u \in {x \in TxSamples : x.to.id = "v2" /\ x.to.form = "checksum"} }

FeeSamples ==
  { [maxPriorityFeePerGas |-> p, maxFeePerGas |-> m] :
      p \in {Null, 0, parseUnitsGwei(1), parseUnitsGwei(5)}, m \in {Null, parseUnitsGwei(40)} }

NoFee == [maxPriorityFeePerGas |-> Null, maxFeePerGas |-> Null]

\* what submission.wait() may resolve with
WaitResponses == [error : BOOLEAN, blockNumber : BOOLEAN]

NoResponse == [error |-> FALSE, blockNumber |-> FALSE]

\* locals of an activation: rejected names the relay call of executeBundle
\* whose promise rejected, success is what executeBundle returned;
\* scanResult is how scanMEVOpportunities ended, scanFailure what threw
\* inside it, failed the snapshot positions whose processing threw;
\* buildFailure is the step of createSandwichBundle that threw, calls the
\* chain, signer and relay calls the activation has issued since the scan
VARIABLES
  keyCfg,             \* process.env.WALLET_PRIVATE_KEY
  initPc,             \* position of initializeFlashbots (part_000)
  flashbotsExecutor,  \* the exported singleton; relay: flashbotsProvider is set
  armed,              \* setTimeout timers waiting to fire
  started,            \* activations of mevScanLoop that got past its guard
  cyc,                \* running activations of mevScanLoop and their locals
  head,               \* chain height (provider.getBlockNumber)
  txCount,            \* provider.getTransactionCount(wallet.address)
  sent,               \* calls of flashbotsProvider.sendBundle, in order
  exited              \* process.exit was called

vars == <<keyCfg, initPc, flashbotsExecutor, armed, started, cyc, head, txCount, sent, exited>>

NoExecutor == [exists |-> FALSE, relay |-> FALSE]

NewActivation ==
  [ pc |-> "scan_fetch", pool |-> <<>>, idx |-> 0, opportunities |-> <<>>,
    currentBlock |-> Null, initialNonce |-> Null, feeData |-> NoFee,
    signed |-> <<>>, bundleRequest |-> <<>>, sendAt |-> 0, rejected |-> "none",
    waitResponse |-> NoResponse, success |-> "none",
    scanResult |-> "none", scanFailure |-> "none", failed |-> {},
    buildFailure |-> "none", calls |-> {} ]

Init ==
  /\ keyCfg \in {"unset", "placeholder", "malformed", "valid"}
  /\ initPc = "start"
  /\ flashbotsExecutor = NoExecutor
  /\ armed = 0
  /\ started = 0
  /\ cyc = <<>>
  /\ head = 0
  /\ txCount \in 0..MaxNonce
  /\ sent = <<>>
  /\ exited = FALSE

\* --------------------------------------------------------------- scheduler
\* slip: the next tick armed twice
ArmNextTick_twice(t) == t + 2

\* slip: the next tick is not armed
ArmNextTick_never(t) == t

\* setTimeout(mevScanLoop, MEV_SCAN_INTERVAL)
ArmNextTick(t) == t + 1

\* mevScanLoop up to its first await: the guard on the singleton, then the
\* call of scanMEVOpportunities, which issues the pending-block request.
EnterLoop(ex, c, n) ==
  IF ~ex.exists THEN <<c, n>>
  ELSE <<(n + 1) :> NewActivation @@ c, n + 1>>

\* initializeFlashbots, up to the await of executor.initializeFlashbots()
InitBegin ==
  /\ ~exited /\ initPc = "start"
  /\ IF keyCfg \in {"unset", "placeholder"}
       THEN initPc' = "disabled" /\ UNCHANGED flashbotsExecutor
       ELSE IF keyCfg = "malformed"
         \* new ethers.Wallet throws inside the constructor: nothing is assigned
         THEN initPc' = "failed" /\ UNCHANGED flashbotsExecutor
         ELSE /\ initPc' = "creating"
              /\ flashbotsExecutor' = [exists |-> TRUE, relay |-> FALSE]
  /\ UNCHANGED <<keyCfg, armed, started, cyc, head, txCount, sent, exited>>

\* FlashbotsBundleProvider.create settles
InitCreateSettle ==
  /\ ~exited /\ initPc = "creating"
  /\ \E ok \in BOOLEAN :
       IF ok
         THEN /\ flashbotsExecutor' = [exists |-> TRUE, relay |-> TRUE]
              /\ initPc' = "done"
              /\ LET r == EnterLoop(flashbotsExecutor', cyc, started)
                 IN cyc' = r[1] /\ started' = r[2]
         ELSE /\ initPc' = "failed"
              /\ UNCHANGED <<flashbotsExecutor, cyc, started>>
  /\ UNCHANGED <<keyCfg, armed, head, txCount, sent, exited>>

\* a timer fires and calls mevScanLoop
Tick ==
  /\ ~exited /\ armed > 0 /\ started < MaxCycles
  /\ armed' = armed - 1
  /\ LET r == EnterLoop(flashbotsExecutor, cyc, started)
     IN cyc' = r[1] /\ started' = r[2]
  /\ UNCHANGED <<keyCfg, initPc, flashbotsExecutor, head, txCount, sent, exited>>

Set(c, upd) == cyc' = [cyc EXCEPT ![c] = upd @@ cyc[c]]

Frame == UNCHANGED <<keyCfg, initPc, flashbotsExecutor, armed, started, head, txCount, sent, exited>>

\* ----------------------------------------------------------------- scanner
\* analyzeTransaction's filter
Qualifies(tx) ==
  /\ tx.to # NoAddr
  /\ toLowerCase(tx.to) \in dexAddresses
  /\ tx.value # 0
  /\ gt(tx.value, parseEther(<<0, WeiPerEther \div 20>>))

\* the opportunity analyzeTransaction returns for a qualifying transaction
Opportunity(tx, blockNumber) ==
  [ type |-> "sandwich",
    profit |-> formatEther((tx.value * 5) \div 100),
    transactions |-> <<tx>>,
    targetBlock |-> blockNumber + 1,
    targetTxValue |-> tx.value ]

Slice(s, n) == SubSeq(s, 1, IF Len(s) < n THEN Len(s) ELSE n)

\* slip: the catch block of scanMEVOpportunities rethrows
OnScanThrow_rethrow == "threw"

\* the catch block of scanMEVOpportunities logs and falls through to the
\* return of the opportunities collected so far
OnScanThrow == "returned"

\* something threw inside the try of scanMEVOpportunities; were it to
\* escape, the catch of mevScanLoop would end the cycle
ScanThrows(c, what, at) ==
  Set(c, [pc |-> IF OnScanThrow = "returned" THEN "scanned" ELSE "end",
          scanResult |-> OnScanThrow, scanFailure |-> what,
          failed |-> cyc[c].failed \cup at])

\* provider.send("eth_getBlockByNumber", ["pending", true]) settles
ScanFetch(c) ==
  /\ ~exited /\ cyc[c].pc = "scan_fetch"
  /\ \/ ScanThrows(c, "fetch", {})
     \/ Set(c, [pc |-> "scanned", scanResult |-> "returned"])   \* no block
     \/ \E p \in PendingPools :
          Set(c, [pc |-> IF Len(p) = 0 THEN "scanned" ELSE "scan_item",
                  scanResult |-> IF Len(p) = 0 THEN "returned" ELSE "none",
                  pool |-> Slice(p, SCAN_LIMIT), idx |-> 1])
  /\ Frame

\* one iteration of the for loop of scanMEVOpportunities
ScanItem(c) ==
  /\ ~exited /\ cyc[c].pc = "scan_item"
  /\ LET l == cyc[c]
         tx == l.pool[l.idx]
         next == IF l.idx = Len(l.pool) THEN "scanned" ELSE "scan_item"
         res == IF l.idx = Len(l.pool) THEN "returned" ELSE "none"
     IN IF ~tx.raw
          \* formatter.transactionResponse throws: the catch is outside the loop
          THEN ScanThrows(c, "decode", {l.idx})
          ELSE IF ~Qualifies(tx)
            THEN Set(c, [pc |-> next, scanResult |-> res, idx |-> l.idx + 1])
            ELSE \/ Set(c, [pc |-> next, scanResult |-> res, idx |-> l.idx + 1,
                            opportunities |-> Append(l.opportunities, Opportunity(tx, head))])
                 \* getBlockNumber throws inside analyzeTransaction, whose
                 \* own catch returns null
                 \/ Set(c, [pc |-> next, scanResult |-> res, idx |-> l.idx + 1,
                            failed |-> l.failed \cup {l.idx}])
  /\ Frame

\* ----------------------------------------------------------------- builder
\* slip: the whole profit is given as tip
minerTip_whole(opportunity) == parseEther(opportunity.profit)

minerTip(opportunity) == parseEther(opportunity.profit) \div 2

frontRunAmountIn(opportunity) == opportunity.targetTxValue \div 10

\* slip: the default used as a floor
maxPriorityFeePerGas_floor(feeData) ==
  IF feeData.maxPriorityFeePerGas < parseUnitsGwei(3) THEN parseUnitsGwei(3)
  ELSE feeData.maxPriorityFeePerGas

maxPriorityFeePerGas(feeData) == OrElse(feeData.maxPriorityFeePerGas, parseUnitsGwei(3))

maxFeePerGasWithTip(feeData, opportunity) ==
  OrElse(feeData.maxFeePerGas, parseUnitsGwei(50)) + minerTip(opportunity)

frontRunNonce(initialNonce) == initialNonce

\* slip: the back-run reuses the front-run nonce
backRunNonce_same(initialNonce) == initialNonce

backRunNonce(initialNonce) == initialNonce + 1

frontRunTx(opportunity, feeData, initialNonce) ==
  [ to |-> UNISWAP_V2_ROUTER, gasLimit |-> GAS_LIMIT,
    maxPriorityFeePerGas |-> maxPriorityFeePerGas(feeData),
    maxFeePerGas |-> maxFeePerGasWithTip(feeData, opportunity),
    value |-> frontRunAmountIn(opportunity),
    chainId |-> CHAIN_ID, nonce |-> frontRunNonce(initialNonce) ]

backRunTx(opportunity, feeData, initialNonce) ==
  [ to |-> UNISWAP_V2_ROUTER, gasLimit |-> GAS_LIMIT,
    maxPriorityFeePerGas |-> maxPriorityFeePerGas(feeData),
    maxFeePerGas |-> maxFeePerGasWithTip(feeData, opportunity),
    value |-> 0,
    chainId |-> CHAIN_ID, nonce |-> backRunNonce(initialNonce) ]

\* wallet.signTransaction: the request together with the wallet's signature
signTransaction(req) == [tx |-> req, signedBy |-> "wallet"]

\* slip: the target block taken from the opportunity
nextBlock_stale(currentBlock, opportunity) == opportunity.targetBlock

\* the block a bundle built at height currentBlock for opportunity targets
nextBlock(currentBlock, opportunity) == currentBlock + 1

\* slip: the guard on the sizing input is missing
MissingValue_never(opportunity) == FALSE

\* !opportunity.targetTxValue
MissingValue(opportunity) == opportunity.targetTxValue = Null \/ opportunity.targetTxValue = 0

\* mevScanLoop after scanMEVOpportunities has returned: picks the first
\* opportunity and enters createSandwichBundle, up to its first await
Dispatch(c) ==
  /\ ~exited /\ cyc[c].pc = "scanned"
  /\ LET l == cyc[c]
     IN IF Len(l.opportunities) > 0 /\ l.opportunities[1].type = "sandwich"
               /\ ~MissingValue(l.opportunities[1])
          THEN Set(c, [pc |-> "build_block", pool |-> <<>>, idx |-> 0, failed |-> {},
                       calls |-> {"getBlockNumber"}])
          ELSE Set(c, [pc |-> "end", pool |-> <<>>, idx |-> 0, failed |-> {}])
  /\ Frame

\* slip: the last opportunity is taken
firstOpportunity_last(c) == cyc[c].opportunities[Len(cyc[c].opportunities)]

firstOpportunity(c) == cyc[c].opportunities[1]

\* slip: the catch block hands back what was signed so far
OnBuildThrow_partial(l) ==
  IF l.signed = <<>> THEN <<>>
  ELSE << [transactions |-> l.signed, blockNumber |-> l.currentBlock + 1, builtIn |-> 0] >>

\* the catch block of createSandwichBundle returns null
OnBuildThrow(l) == <<>>

\* locals that nothing reads any more once the bundle has been handed to
\* the relay or the build has been given up
Dead ==
  [ opportunities |-> <<>>, currentBlock |-> Null, initialNonce |-> Null,
    feeData |-> NoFee, signed |-> <<>>, bundleRequest |-> <<>> ]

\* a step of createSandwichBundle threw; mevScanLoop then tests the result
BuildThrows(c, step) ==
  LET r == OnBuildThrow(cyc[c])
  IN IF r = <<>>
       THEN Set(c, [pc |-> "end", buildFailure |-> step] @@ Dead)
       ELSE Set(c, [pc |-> "built", bundleRequest |-> r, buildFailure |-> step,
                    signed |-> <<>>])

Issue(c, call) == cyc[c].calls \cup {call}

\* provider.getBlockNumber settles
BuildBlock(c) ==
  /\ ~exited /\ cyc[c].pc = "build_block"
  /\ \/ Set(c, [pc |-> "build_nonce", currentBlock |-> head,
                  calls |-> Issue(c, "getTransactionCount")])
     \/ BuildThrows(c, "getBlockNumber")
  /\ Frame

\* provider.getTransactionCount settles
BuildNonce(c) ==
  /\ ~exited /\ cyc[c].pc = "build_nonce"
  /\ \/ Set(c, [pc |-> "build_fee", initialNonce |-> txCount,
                  calls |-> Issue(c, "getFeeData")])
     \/ BuildThrows(c, "getTransactionCount")
  /\ Frame

\* provider.getFeeData settles
BuildFee(c) ==
  /\ ~exited /\ cyc[c].pc = "build_fee"
  /\ \/ \E f \in FeeSamples :
          Set(c, [pc |-> "sign_front", feeData |-> f, calls |-> Issue(c, "signTransaction")])
     \/ BuildThrows(c, "getFeeData")
  /\ Frame

\* wallet.signTransaction(frontRunTx) settles
SignFront(c) ==
  /\ ~exited /\ cyc[c].pc = "sign_front"
  /\ LET l == cyc[c]
     IN \/ Set(c, [pc |-> "sign_back",
                   signed |-> <<signTransaction(
                       frontRunTx(firstOpportunity(c), l.feeData, l.initialNonce))>>])
        \/ BuildThrows(c, "signFrontRun")
  /\ Frame

\* wallet.signTransaction(backRunTx) settles; on success the bundle is returned
SignBack(c) ==
  /\ ~exited /\ cyc[c].pc = "sign_back"
  /\ LET l == cyc[c]
         back == signTransaction(backRunTx(firstOpportunity(c), l.feeData, l.initialNonce))
     IN \/ Set(c, [pc |-> "built", signed |-> <<>>,
                   bundleRequest |->
                     << [ transactions |-> Append(l.signed, back),
                          blockNumber |-> nextBlock(l.currentBlock, firstOpportunity(c)),
                          builtIn |-> c ] >>])
        \/ BuildThrows(c, "signBackRun")
  /\ Frame

\* --------------------------------------------------------------- submitter
\* slip: the bundle is passed to sendBundle a second time
RelaySend_twice(log, c, bundle) ==
  LET e == [cycle |-> c, builtIn |-> bundle.builtIn,
            blockNumber |-> bundle.blockNumber, result |-> "pending"]
  IN Append(Append(log, e), e)

\* flashbotsProvider.sendBundle(transactions, targetBlock) is called
RelaySend(log, c, bundle) ==
  Append(log, [cycle |-> c, builtIn |-> bundle.builtIn,
               blockNumber |-> bundle.blockNumber, result |-> "pending"])

\* slip: the catch block rethrows
OnThrow_rethrow == "threw"

\* the catch block of executeBundle
OnThrow == "false"

\* executeBundle after submission.wait() has resolved
OnResponse(waitResponse) == IF waitResponse.error THEN "false" ELSE "true"

Settle(c, res) ==
  sent' = [sent EXCEPT ![cyc[c].sendAt] = [@ EXCEPT !.result = res]]

FrameS == UNCHANGED <<keyCfg, initPc, flashbotsExecutor, armed, started, head, txCount, exited>>

\* mevScanLoop got a bundle and calls executeBundle, which calls sendBundle
Submit(c) ==
  /\ ~exited /\ cyc[c].pc = "built"
  /\ sent' = RelaySend(sent, c, cyc[c].bundleRequest[1])
  /\ Set(c, [pc |-> "sending", sendAt |-> Len(sent'), calls |-> Issue(c, "sendBundle")])
  /\ FrameS

\* sendBundle settles
SendSettle(c) ==
  /\ ~exited /\ cyc[c].pc = "sending"
  /\ \/ /\ flashbotsExecutor.relay
        /\ Set(c, [pc |-> "waiting"] @@ Dead)
        /\ UNCHANGED sent
     \/ /\ Set(c, [pc |-> "end", rejected |-> "sendBundle", success |-> OnThrow] @@ Dead)
        /\ Settle(c, OnThrow)
  /\ FrameS

\* submission.wait() settles
WaitSettle(c) ==
  /\ ~exited /\ cyc[c].pc = "waiting"
  /\ \/ \E r \in WaitResponses :
          /\ Set(c, [pc |-> "end", waitResponse |-> r, success |-> OnResponse(r)])
          /\ Settle(c, OnResponse(r))
     \/ /\ Set(c, [pc |-> "end", rejected |-> "wait", success |-> OnThrow])
        /\ Settle(c, OnThrow)
  /\ FrameS

\* the end of mevScanLoop: the activation returns after arming the next tick
CycleEnd(c) ==
  /\ ~exited /\ cyc[c].pc = "end"
  /\ cyc' = [x \in DOMAIN cyc \ {c} |-> cyc[x]]
  /\ armed' = ArmNextTick(armed)
  /\ UNCHANGED <<keyCfg, initPc, flashbotsExecutor, started, head, txCount, sent, exited>>

\* ---------------------------------------------------------------- shutdown
\* the SIGINT / SIGTERM handlers: stopFn() stops the API server, then
\* process.exit(0) ends the process with whatever is in flight
Shutdown ==
  /\ ~exited
  /\ exited' = TRUE
  /\ UNCHANGED <<keyCfg, initPc, flashbotsExecutor, armed, started, cyc, head, txCount, sent>>

\* ------------------------------------------------------------- environment
NewBlock ==
  /\ head < MaxHead
  /\ head' = head + 1
  /\ UNCHANGED <<keyCfg, initPc, flashbotsExecutor, armed, started, cyc, txCount, sent, exited>>

AccountNonceAdvance ==
  /\ txCount < MaxNonce
  /\ txCount' = txCount + 1
  /\ UNCHANGED <<keyCfg, initPc, flashbotsExecutor, armed, started, cyc, head, sent, exited>>

Next ==
  \/ InitBegin
  \/ InitCreateSettle
  \/ Tick
  \/ \E c \in DOMAIN cyc : ScanFetch(c)
  \/ \E c \in DOMAIN cyc : ScanItem(c)
  \/ \E c \in DOMAIN cyc : Dispatch(c)
  \/ \E c \in DOMAIN cyc : BuildBlock(c)
  \/ \E c \in DOMAIN cyc : BuildNonce(c)
  \/ \E c \in DOMAIN cyc : BuildFee(c)
  \/ \E c \in DOMAIN cyc : SignFront(c)
  \/ \E c \in DOMAIN cyc : SignBack(c)
  \/ \E c \in DOMAIN cyc : Submit(c)
  \/ \E c \in DOMAIN cyc : SendSettle(c)
  \/ \E c \in DOMAIN cyc : WaitSettle(c)
  \/ \E c \in DOMAIN cyc : CycleEnd(c)
  \/ Shutdown
  \/ NewBlock
  \/ AccountNonceAdvance

Spec == Init /\ [][Next]_vars

\* a step of some activation in progress
CycleStep ==
  \E c \in DOMAIN cyc :
    \/ ScanFetch(c) \/ ScanItem(c) \/ Dispatch(c)
    \/ BuildBlock(c) \/ BuildNonce(c) \/ BuildFee(c) \/ SignFront(c) \/ SignBack(c)
    \/ Submit(c) \/ SendSettle(c) \/ WaitSettle(c) \/ CycleEnd(c)

\* the event loop runs every callback that is ready: a due timer fires and
\* every awaited call of an activation settles
FairSpec == Spec /\ WF_vars(Tick) /\ WF_vars(CycleStep)

\* --------------------------------------- createSandwichBundle called directly
\* opportunities a caller may pass: the MEVOpportunity interface leaves
\* targetTxValue optional and allows three kinds
OppSamples ==
  { [type |-> "sandwich", profit |-> <<0, WeiPerEther \div 20>>, transactions |-> <<>>,
     targetBlock |-> 1, targetTxValue |-> WeiPerEther],
    [type |-> "sandwich", profit |-> <<0, 2501>>, transactions |-> <<>>,
     targetBlock |-> 1, targetTxValue |-> 50023],
    [type |-> "sandwich", profit |-> <<1, WeiPerEther \div 2>>, transactions |-> <<>>,
     targetBlock |-> 1, targetTxValue |-> 30 * WeiPerEther],
    [type |-> "sandwich", profit |-> <<0, WeiPerEther \div 20>>, transactions |-> <<>>,
     targetBlock |-> 1, targetTxValue |-> Null],
    [type |-> "arbitrage", profit |-> <<0, WeiPerEther \div 20>>, transactions |-> <<>>,
     targetBlock |-> 1, targetTxValue |-> WeiPerEther] }

\* an initialised executor and one activation whose scan has just returned
\* the given opportunity
InitBuild ==
  /\ keyCfg = "valid"
  /\ initPc = "done"
  /\ flashbotsExecutor = [exists |-> TRUE, relay |-> TRUE]
  /\ armed = 0
  /\ started = 1
  /\ \E o \in OppSamples :
       cyc = 1 :> ([pc |-> "scanned", scanResult |-> "returned", opportunities |-> <<o>>]
                   @@ NewActivation)
  /\ head = 0
  /\ txCount \in 0..MaxNonce
  /\ sent = <<>>
  /\ exited = FALSE

NextBuild ==
  \/ \E c \in DOMAIN cyc : Dispatch(c)
  \/ \E c \in DOMAIN cyc : BuildBlock(c)
  \/ \E c \in DOMAIN cyc : BuildNonce(c)
  \/ \E c \in DOMAIN cyc : BuildFee(c)
  \/ \E c \in DOMAIN cyc : SignFront(c)
  \/ \E c \in DOMAIN cyc : SignBack(c)
  \/ \E c \in DOMAIN cyc : Submit(c)
  \/ \E c \in DOMAIN cyc : SendSettle(c)
  \/ \E c \in DOMAIN cyc : WaitSettle(c)
  \/ NewBlock
  \/ AccountNonceAdvance

SpecBuild == InitBuild /\ [][NextBuild]_vars

\* ------------------------------------------------------------------ claims
\* activations that hold a bundle returned by createSandwichBundle
Built == {c \in DOMAIN cyc : cyc[c].bundleRequest # <<>>}

\* the decimal amount 0.05 ether in base units
Threshold == WeiPerEther \div 20

\* C1: at most one activation of mevScanLoop is in progress, and while one
\* is in progress no tick is armed, so a new cycle starts only after the
\* previous one has settled.
C1_NoOverlap ==
  /\ Cardinality(DOMAIN cyc) <= 1
  /\ (DOMAIN cyc # {} => armed = 0)
  /\ armed <= 1

C1_Witness ==
  /\ started = 2
  /\ \E c \in DOMAIN cyc : cyc[c].pc = "waiting"
  /\ Len(sent) = 2

\* C2: every bundle returned by createSandwichBundle holds exactly two
\* transactions, the front-run (non-zero value) first and the back-run
\* (value 0) second, with nonces n and n+1 for the transaction count n read
\* during the build, and both carry the same two fee fields.
C2_TwoTxSequentialNonces ==
  \A c \in Built :
    LET b == cyc[c].bundleRequest[1]
        n == cyc[c].initialNonce
    IN /\ Len(b.transactions) = 2
       /\ b.transactions[1].tx.nonce = n
       /\ b.transactions[2].tx.nonce = n + 1
       /\ n >= 0
       /\ b.transactions[1].tx.value > 0
       /\ b.transactions[2].tx.value = 0
       /\ b.transactions[1].tx.maxPriorityFeePerGas = b.transactions[2].tx.maxPriorityFeePerGas
       /\ b.transactions[1].tx.maxFeePerGas = b.transactions[2].tx.maxFeePerGas

C2_Witness ==
  \E c \in Built :
    /\ cyc[c].pc = "built"
    /\ cyc[c].initialNonce = MaxNonce
    /\ cyc[c].bundleRequest[1].transactions[2].tx.nonce = MaxNonce + 1

\* C3: every bundle returned by createSandwichBundle targets the chain
\* height read during that build plus one, whatever targetBlock the
\* opportunity got when it was analysed.
C3_TargetIsHeadAtBuildPlusOne ==
  \A c \in Built :
    /\ cyc[c].currentBlock >= 0
    /\ cyc[c].bundleRequest[1].blockNumber = cyc[c].currentBlock + 1

C3_Witness ==
  \E c \in Built :
    /\ cyc[c].pc = "built"
    /\ cyc[c].opportunities[1].targetBlock < cyc[c].bundleRequest[1].blockNumber

\* C4: executeBundle returns true exactly when the inclusion-wait response
\* has no error field and has a block number.
C4_TrueIffIncluded ==
  \A c \in DOMAIN cyc :
    cyc[c].success # "none" =>
      (cyc[c].success = "true" <=>
         (cyc[c].rejected = "none" /\ ~cyc[c].waitResponse.error
            /\ cyc[c].waitResponse.blockNumber))

\* C5: executeBundle never throws; when sendBundle or the inclusion wait
\* rejects it returns false.
C5_FailureNeverEscapes ==
  \A c \in DOMAIN cyc :
    /\ cyc[c].success # "threw"
    /\ (cyc[c].rejected # "none" => cyc[c].success = "false")

C5_Witness ==
  \E c \in DOMAIN cyc : cyc[c].pc = "end" /\ cyc[c].rejected = "wait"

C7_FailedBlockNeverRetried ==
  \A i \in DOMAIN sent : \A j \in DOMAIN sent :
    (i < j /\ sent[i].result = "false") => sent[j].blockNumber > sent[i].blockNumber

\* C8: once stop has been requested no tick fires and no cycle begins,
\* while an activation in flight can still take its next step.
C8_StopLetsCycleFinish ==
  exited => /\ ~ENABLED Tick
            /\ (DOMAIN cyc # {} => ENABLED CycleStep)

\* C9: when initialization has failed or was skipped for want of a key, no
\* cycle ever runs, nothing is sent, and the exported flashbotsExecutor is
\* not left set.
C9_InitFailureDisables ==
  initPc \in {"failed", "disabled"} =>
    /\ started = 0 /\ armed = 0 /\ DOMAIN cyc = {} /\ sent = <<>>
    /\ ~flashbotsExecutor.exists

\* C10: every opportunity of a scan comes from a transaction of the
\* snapshot already examined whose recipient is one of the two routers in
\* any letter case and whose value is above 0.05 ether.
C10_OnlyAllowListedAboveThreshold ==
  \A c \in DOMAIN cyc :
    \A i \in DOMAIN cyc[c].opportunities :
      LET tx == cyc[c].opportunities[i].transactions[1]
      IN /\ Len(cyc[c].opportunities[i].transactions) = 1
         /\ tx.to.id \in {"v2", "v3"}
         /\ tx.value > Threshold
         /\ tx.raw
         /\ (cyc[c].pool # <<>> =>
               \E k \in 1..Len(cyc[c].pool) : k <= cyc[c].idx /\ cyc[c].pool[k] = tx)

C10_Witness ==
  \E c \in DOMAIN cyc :
    /\ cyc[c].pc = "scanned"
    /\ Len(cyc[c].pool) = 2
    /\ cyc[c].pool[1].to.id = "v2" /\ cyc[c].pool[1].value = Threshold
    /\ Len(cyc[c].opportunities) = 1
    /\ cyc[c].opportunities[1].transactions[1].to.form = "checksum"

\* sendBundle calls made by activation c
SentBy(c) == {i \in DOMAIN sent : sent[i].cycle = c}

\* the snapshot position whose transaction opportunity o was made from
Origin(c, o) == {k \in 1..Len(cyc[c].pool) : <<cyc[c].pool[k]>> = o.transactions}

\* C11: when processing one candidate throws, only that candidate is lost:
\* the returned opportunities cover every other decodable transaction of
\* the snapshot that goes to a router with a value above 0.05 ether.
C11_FailureSkipsOnlyThatCandidate ==
  \A c \in DOMAIN cyc :
    (cyc[c].pc = "scanned" /\ cyc[c].pool # <<>>) =>
      \A k \in 1..Len(cyc[c].pool) :
        LET tx == cyc[c].pool[k]
        IN (k \notin cyc[c].failed /\ tx.raw /\ tx.to.id \in {"v2", "v3"}
              /\ tx.value > Threshold)
           => \E i \in DOMAIN cyc[c].opportunities :
                cyc[c].opportunities[i].transactions = <<tx>>

\* C12: scanMEVOpportunities never throws, and when the fetch of the pending
\* block throws it returns no opportunity and the activation builds and
\* submits nothing.
C12_ScanNeverFails ==
  \A c \in DOMAIN cyc :
    /\ cyc[c].scanResult # "threw"
    /\ cyc[c].scanFailure = "fetch" =>
         /\ cyc[c].scanResult = "returned"
         /\ cyc[c].opportunities = <<>>
         /\ cyc[c].pc \in {"scanned", "end"}
         /\ cyc[c].calls = {}
         /\ cyc[c].bundleRequest = <<>>
         /\ SentBy(c) = {}

C12_Witness ==
  \E c \in DOMAIN cyc : cyc[c].scanFailure = "fetch" /\ cyc[c].pc = "end"

\* C13: when a step of createSandwichBundle throws, the result is null and
\* the activation never calls executeBundle; whatever is passed to
\* sendBundle holds two transactions, both signed.
C13_NoHalfSigned ==
  \A c \in DOMAIN cyc :
    /\ cyc[c].buildFailure # "none" =>
         /\ cyc[c].bundleRequest = <<>>
         /\ cyc[c].pc = "end"
         /\ cyc[c].success = "none"
         /\ "sendBundle" \notin cyc[c].calls
         /\ SentBy(c) = {}
    /\ ("sendBundle" \in cyc[c].calls \/ SentBy(c) # {}) =>
         cyc[c].buildFailure = "none"
    /\ cyc[c].pc = "sending" =>
         /\ "sendBundle" \in cyc[c].calls /\ SentBy(c) # {}
         /\ Len(cyc[c].bundleRequest) = 1
         /\ Len(cyc[c].bundleRequest[1].transactions) = 2
         /\ \A i \in 1..2 : cyc[c].bundleRequest[1].transactions[i].signedBy = "wallet"

C13_Witness ==
  \E c \in DOMAIN cyc : cyc[c].buildFailure = "signBackRun" /\ cyc[c].pc = "end"

\* C14: createSandwichBundle called with an opportunity without
\* targetTxValue returns null, having read nothing from the chain, signed
\* nothing and submitted nothing.
C14_MissingValueNoSideEffect ==
  \A c \in DOMAIN cyc :
    (cyc[c].pc # "scanned" /\ cyc[c].opportunities # <<>>
       /\ cyc[c].opportunities[1].type = "sandwich"
       /\ cyc[c].opportunities[1].targetTxValue = Null) =>
      /\ cyc[c].pc = "end"
      /\ cyc[c].calls = {}
      /\ cyc[c].currentBlock = Null /\ cyc[c].initialNonce = Null
      /\ cyc[c].signed = <<>> /\ cyc[c].bundleRequest = <<>>
      /\ cyc[c].buildFailure = "none"
      /\ SentBy(c) = {}

C14_Witness ==
  \E c \in DOMAIN cyc :
    /\ cyc[c].pc = "end"
    /\ cyc[c].opportunities[1].type = "sandwich"
    /\ cyc[c].opportunities[1].targetTxValue = Null

BothPriorityFee(c, fee) ==
  \A i \in 1..2 : cyc[c].bundleRequest[1].transactions[i].tx.maxPriorityFeePerGas = fee

\* C16 (as stated): the priority fee of both transactions is the larger of
\* the suggested priority fee and 3 gwei; a missing suggestion gives 3 gwei.
C16_PriorityFeeIsMax ==
  \A c \in Built :
    LET s == cyc[c].feeData.maxPriorityFeePerGas
    IN BothPriorityFee(c, IF s = Null \/ s < 3 * WeiPerGwei THEN 3 * WeiPerGwei ELSE s)

\* C16 (amended): the priority fee of both transactions is the suggested
\* priority fee whenever one is given and is not zero, also when it is below
\* 3 gwei; a missing or zero suggestion gives 3 gwei.
C16_PriorityFeeDefault ==
  \A c \in Built :
    LET s == cyc[c].feeData.maxPriorityFeePerGas
    IN BothPriorityFee(c, IF s = Null \/ s = 0 THEN 3 * WeiPerGwei ELSE s)

C16_Witness ==
  \E c \in Built :
    /\ cyc[c].feeData.maxPriorityFeePerGas = 1 * WeiPerGwei
    /\ BothPriorityFee(c, 1 * WeiPerGwei)

\* C17: in base units the tip is half the profit rounded down, the max fee
\* of both transactions is the suggested max fee (50 gwei when none is
\* given) plus the tip, the front-run value is a tenth of targetTxValue
\* rounded down and the back-run value is 0.
C17_TipAndValues ==
  \A c \in Built :
    LET o == cyc[c].opportunities[1]
        profit == o.profit[1] * WeiPerEther + o.profit[2]
        tip == profit \div 2
        s == cyc[c].feeData.maxFeePerGas
        base == IF s = Null THEN 50 * WeiPerGwei ELSE s
        t == cyc[c].bundleRequest[1].transactions
    IN /\ t[1].tx.maxFeePerGas = base + tip
       /\ t[2].tx.maxFeePerGas = base + tip
       /\ t[1].tx.value = o.targetTxValue \div 10
       /\ t[2].tx.value = 0

C17_Witness ==
  \E c \in Built :
    /\ cyc[c].opportunities[1].profit = <<0, 2501>>
    /\ cyc[c].opportunities[1].targetTxValue = 50023
    /\ cyc[c].feeData.maxFeePerGas = 40 * WeiPerGwei
    /\ cyc[c].bundleRequest[1].transactions[1].tx.maxFeePerGas = 40 * WeiPerGwei + 1250
    /\ cyc[c].bundleRequest[1].transactions[1].tx.value = 5002

\* C18: an opportunity made from a transaction of value V has kind
\* sandwich, targetTxValue V, and a profit string that reads, in base
\* units, V * 5 / 100 rounded down.
C18_ProfitIsFivePercent ==
  \A c \in DOMAIN cyc :
    \A i \in DOMAIN cyc[c].opportunities :
      LET o == cyc[c].opportunities[i]
          V == o.transactions[1].value
      IN /\ o.type = "sandwich"
         /\ o.targetTxValue = V
         /\ V > Threshold
         /\ o.profit[2] < WeiPerEther
         /\ o.profit[1] * WeiPerEther + o.profit[2] = (V * 5) \div 100

C18_Witness ==
  \E c \in DOMAIN cyc :
    /\ Len(cyc[c].opportunities) = 2
    /\ cyc[c].opportunities[1].transactions[1].value = Threshold + 1
    /\ cyc[c].opportunities[1].profit = <<0, 2500>>
    /\ cyc[c].opportunities[2].profit = <<0, WeiPerEther \div 20>>

\* C19: whenever an activation ends, whatever its outcome, exactly one tick
\* is armed, and unless the process exits a further cycle then starts.
C19_AlwaysRearmed ==
  /\ [][ \A c \in DOMAIN cyc :
           c \notin DOMAIN cyc' => (armed' = armed + 1 /\ armed' = 1) ]_vars
  /\ \A n \in 1..(MaxCycles - 1) : (started = n) ~> (started = n + 1 \/ exited)

C19_Witness ==
  /\ started = 2
  /\ Len(sent) = 1
  /\ sent[1].result = "true"
  /\ DOMAIN cyc # {}

====
